---- MODULE Spec2Model ----
(***************************************************************************)
(* Batch extraction / apply pipeline of Metadata-AI.                       *)
(*                                                                         *)
(* Two schedulers live in the repository and both are modelled, selected   *)
(* by `impl`:                                                              *)
(*   "V3"  Metadata-V3.0/modules/processing.py : process_files, a          *)
(*         rerun-driven loop that handles one file per script run;         *)
(*   "V4"  modules/processing.py : process_files_with_progress, a loop     *)
(*         (Sequential) or a thread pool (Parallel) inside one script run. *)
(* The AI extraction call is the environment: every invocation returns a   *)
(* response or raises, chosen nondeterministically.                        *)
(* The Cancel handler only writes is_processing; it is interleaved with    *)
(* the steps of a run, which is what the loop's per-iteration check of     *)
(* is_processing is written for. Start is taken between script runs.       *)
(***************************************************************************)
EXTENDS Integers, Sequences, FiniteSets, TLC

\* ---------------------------------------------------------------- bounds
MaxFiles == 3
MaxRetriesInput == 2
MaxBatch == 2
MaxFailsThenOk == 1

Ids == {"f1", "f2", "f3"}
Responses == {"r1", "r2"}
Errors == {"e1"}
Outcomes == Responses \cup Errors

VARIABLES
    impl,                \* which scheduler runs: "V3" or "V4"
    selected_files,      \* st.session_state.selected_files (ids, input order)
    processing_mode,     \* "Sequential" or "Parallel"
    batch_size,          \* metadata_config["batch_size"]
    max_retries,         \* processing_state["max_retries"]
    ai_behaviour,        \* environment: how the AI call behaves for each id
    is_processing,       \* processing_state["is_processing"]
    processed_files,     \* processing_state["processed_files"]
    total_files,         \* processing_state["total_files"]
    current_file_index,  \* processing_state["current_file_index"] (0-based)
    results,             \* processing_state["results"]  : id -> data
    errors,              \* processing_state["errors"]   : id -> message
    retries,             \* processing_state["retries"]  : id -> count
    extraction_results,  \* st.session_state.extraction_results
    pc,                  \* position of the script / of the run
    loop_i,              \* V4 sequential: the for-loop's i
    queue_next,          \* V4 parallel: next submitted position a worker takes
    running,             \* V4 parallel: positions whose call is in flight
    completed,           \* V4 parallel: finished futures, position -> outcome
    collected,           \* V4 parallel: futures already taken by as_completed
    attempts,            \* history: id -> outcomes of its calls in this run
    started,             \* history: positions whose call was invoked in this run
    cancelled,           \* history: Cancel was handled while the run was on
    cancel_started,      \* history: `started` at that moment
    cancel_inflight,     \* history: positions whose call was in flight then
    normalize_keys,      \* apply option (checkbox)
    filter_placeholders, \* apply option (checkbox)
    use_default_metadata,\* apply option (checkbox)
    available_file_ids,  \* apply pass: the documents, in order
    store,               \* document store: id -> metadata record, if one exists
    a_impl,              \* which apply page runs: "direct" or "viewer"
    a_pc,                \* apply pass: position of the handler
    a_passes,            \* apply pass: number of passes started
    a_i,                 \* apply pass: the for-loop's i (0-based)
    metadata_values,     \* apply: the field map as passed on by the current step
    operations,          \* apply: the update operations built after a conflict
    a_input,             \* history: the field map handed to apply for the document
    a_results,           \* apply pass: the list `results`
    a_errors,            \* apply pass: the list `errors`
    store_calls,         \* history: store calls made for the current document
    a_result,            \* apply: result returned for the last document handled
    p_impl,              \* one file's processing: by process_file (V3) or process_single_file (V4)
    p_pc,                \* one file's processing: position
    p_method,            \* strategy kind used for the file: "structured" or "freeform"
    feedback_data,       \* st.session_state.feedback_data : feedback_key -> entry
    api_result,          \* the raw response of the AI call
    p_resolved,          \* the extracted data, before any feedback is merged
    p_result,            \* the map recorded under results[file_id]
    p_error,             \* the message recorded under errors[file_id]
    p_call,              \* history: how the AI call of the file ended
    r_impl,              \* strategy choice: by process_file (V3) or process_single_file (V4)
    r_pc,                \* strategy choice: position
    metadata_config,     \* st.session_state.metadata_config (method, use_template, routing flag)
    document_categorization, \* categorization results: file id -> document type
    document_type_to_template, \* document type -> template, or None
    document_type_prompts,   \* document type -> freeform prompt
    strategy,            \* the extraction call made for the file
    r_ai_call,           \* whether the extraction function sent a request to the AI
    r_recorded           \* what the step recorded for the file without the AI's answer

schedVars == <<impl, selected_files, processing_mode, batch_size, max_retries,
               ai_behaviour,
               is_processing, processed_files, total_files, current_file_index,
               results, errors, retries, extraction_results, pc, loop_i,
               queue_next, running, completed, collected,
               attempts, started, cancelled, cancel_started, cancel_inflight>>

applyVars == <<a_impl, normalize_keys, filter_placeholders, use_default_metadata,
               available_file_ids, store, a_pc, a_passes, a_i, metadata_values, operations,
               a_input, a_results, a_errors, store_calls, a_result>>

resolveVars == <<p_impl, p_pc, p_method, feedback_data, api_result, p_resolved, p_result,
                 p_error, p_call>>

routeVars == <<r_impl, r_pc, metadata_config, document_categorization,
               document_type_to_template, document_type_prompts, strategy,
               r_ai_call, r_recorded>>

vars == <<schedVars, applyVars, resolveVars, routeVars>>

\* ------------------------------------------------------- dict operations
EmptyMap == [k \in {} |-> k]

Put(m, k, v) == [x \in (DOMAIN m) \cup {k} |-> IF x = k THEN v ELSE m[x]]

Del(m, k) == [x \in (DOMAIN m) \ {k} |-> m[x]]

Get(m, k, default) == IF k \in DOMAIN m THEN m[k] ELSE default

\* ------------------------------------------------------------ inputs
RECURSIVE SeqsUpTo(_)
SeqsUpTo(n) ==
    IF n = 0 THEN {<<>>}
    ELSE LET shorter == SeqsUpTo(n - 1)
         IN shorter \cup {Append(s, d) : s \in {t \in shorter : Len(t) = n - 1}, d \in Ids}

\* Documents are interchangeable, so a list names them in the order of their
\* first occurrence: f1, then f2, then f3.
IdOrder == <<"f1", "f2", "f3">>

Rank(d) == CHOOSE i \in DOMAIN IdOrder : IdOrder[i] = d

FirstOccurrenceOrder(fs) ==
    \A i \in 1..Len(fs) :
        \A r \in 1..(Rank(fs[i]) - 1) : \E j \in 1..(i - 1) : fs[j] = IdOrder[r]

FileLists == {fs \in SeqsUpTo(MaxFiles) \ {<<>>} : FirstOccurrenceOrder(fs)}

NoAttempts == [d \in Ids |-> <<>>]

FileAt(p) == selected_files[p]

Positions == 1..Len(selected_files)

FileIds == {FileAt(p) : p \in Positions}

\* The AI extraction call of a document either fails on every invocation, or
\* fails on its first k invocations of a run and succeeds from then on.
Behaviours ==
    {[always_fails |-> TRUE, fails_before_ok |-> 0]}
        \cup {[always_fails |-> FALSE, fails_before_ok |-> k] : k \in 0..MaxFailsThenOk}

Reliable == [always_fails |-> FALSE, fails_before_ok |-> 0]

CallFails(d) ==
    \/ ai_behaviour[d].always_fails
    \/ Len(attempts[d]) < ai_behaviour[d].fails_before_ok

CallOutcomes(d) == IF CallFails(d) THEN Errors ELSE Responses

DistinctIds == \A p, q \in Positions : p # q => FileAt(p) # FileAt(q)

\* ------------------------------------------------------------ Init
\* Metadata-V3.0 processing.py:38-51 (processing_state as first created);
\* the operator's inputs are drawn from the bounded sets above.
SchedInit ==
    /\ impl \in {"V3", "V4"}
    /\ selected_files \in FileLists
    /\ max_retries \in 0..MaxRetriesInput
    /\ ai_behaviour \in [Ids -> Behaviours]
    /\ \A d \in Ids \ FileIds : ai_behaviour[d] = Reliable
    /\ \/ /\ impl = "V4"
          /\ processing_mode = "Parallel"
          /\ batch_size \in 1..MaxBatch
       \/ /\ processing_mode = "Sequential"
          /\ batch_size = 1
    /\ is_processing = FALSE
    /\ processed_files = 0
    /\ total_files = 0
    /\ current_file_index = -1
    /\ results = EmptyMap
    /\ errors = EmptyMap
    /\ retries = EmptyMap
    /\ extraction_results = EmptyMap
    /\ pc = "idle"
    /\ loop_i = 0
    /\ queue_next = 1
    /\ running = {}
    /\ completed = EmptyMap
    /\ collected = {}
    /\ attempts = NoAttempts
    /\ started = {}
    /\ cancelled = FALSE
    /\ cancel_started = {}
    /\ cancel_inflight = {}

inputVars == <<impl, selected_files, processing_mode, batch_size, max_retries,
               ai_behaviour>>
poolVars == <<queue_next, running, completed, collected>>

cancelVars == <<cancelled, cancel_started, cancel_inflight>>

\* Positions whose AI call is in flight.
InFlight ==
    IF pc = "v3_call" THEN {current_file_index + 1}
    ELSE IF pc = "seq_call" THEN {loop_i + 1}
    ELSE running

\* History bookkeeping of a new run / of a Cancel / of a call.
NewRunHistory ==
    /\ attempts' = NoAttempts
    /\ started' = {}
    /\ cancelled' = FALSE
    /\ cancel_started' = {}
    /\ cancel_inflight' = {}

NoteCancel ==
    IF is_processing /\ ~cancelled
    THEN /\ cancelled' = TRUE
         /\ cancel_started' = started
         /\ cancel_inflight' = InFlight
    ELSE UNCHANGED cancelVars

NoteInvoke(p) == started' = started \cup {p}

NoteReturn(d, out) ==
    attempts' = [attempts EXCEPT ![d] = Append(@, IF out \in Responses THEN "ok" ELSE "fail")]

\* ------------------------------------------------------ Metadata-V3.0
\* A Start that keeps the errors of the run before.
V3Start_KeepsErrors ==
    /\ impl = "V3"
    /\ pc = "idle"
    /\ ~is_processing
    /\ is_processing' = TRUE
    /\ processed_files' = 0
    /\ total_files' = Len(selected_files)
    /\ current_file_index' = -1
    /\ results' = EmptyMap
    /\ retries' = EmptyMap
    /\ NewRunHistory
    /\ UNCHANGED <<applyVars, resolveVars, routeVars, inputVars, errors, extraction_results, pc, loop_i, poolVars>>

\* Start button handler, processing.py:625-634. The button is disabled while
\* is_processing (182-187).
V3Start ==
    /\ impl = "V3"
    /\ pc = "idle"
    /\ ~is_processing
    /\ is_processing' = TRUE
    /\ processed_files' = 0
    /\ total_files' = Len(selected_files)
    /\ current_file_index' = -1
    /\ results' = EmptyMap
    /\ errors' = EmptyMap
    /\ retries' = EmptyMap
    /\ NewRunHistory
    /\ UNCHANGED <<applyVars, resolveVars, routeVars, inputVars, extraction_results, pc, loop_i, poolVars>>

\* Cancel button handler, processing.py:637-639.
V3Cancel ==
    /\ impl = "V3"
    /\ is_processing' = FALSE
    /\ NoteCancel
    /\ UNCHANGED <<applyVars, resolveVars, routeVars, inputVars, processed_files, total_files, current_file_index,
                   results, errors, retries, extraction_results, pc, loop_i,
                   poolVars, attempts, started>>

\* processing.py:644
V3NextIndex == current_file_index + 1

\* processing.py:642 : a script run processes only while is_processing.
V3Processing == impl = "V3" /\ pc = "idle" /\ is_processing

\* A tail that leaves extraction_results as it was.
V3Tail_NoMirror(idx, newResults) ==
    /\ current_file_index' = idx + 1
    /\ is_processing' = IF idx + 1 >= Len(selected_files) THEN FALSE ELSE is_processing
    /\ UNCHANGED extraction_results

\* processing.py:703-713 : the tail shared by the branches that do not rerun
\* early; `idx` is current_file_index as set at line 653.
V3Tail(idx, newResults) ==
    /\ current_file_index' = idx + 1
    /\ is_processing' = IF idx + 1 >= Len(selected_files) THEN FALSE ELSE is_processing
    /\ extraction_results' = newResults

\* processing.py:717-719 : no file left.
V3AllHandled ==
    /\ V3Processing
    /\ ~(V3NextIndex < Len(selected_files))
    /\ is_processing' = FALSE
    /\ UNCHANGED <<applyVars, resolveVars, routeVars, inputVars, processed_files, total_files, current_file_index,
                   results, errors, retries, extraction_results, pc, loop_i,
                   poolVars, attempts, started, cancelVars>>

\* processing.py:656-662 : the file is already in results; rerun at once.
V3Skip ==
    /\ V3Processing
    /\ V3NextIndex < Len(selected_files)
    /\ FileAt(V3NextIndex + 1) \in DOMAIN results
    /\ current_file_index' = V3NextIndex
    /\ processed_files' = processed_files + 1
    /\ UNCHANGED <<applyVars, resolveVars, routeVars, inputVars, is_processing, total_files, results, errors, retries,
                   extraction_results, pc, loop_i, poolVars,
                   attempts, started, cancelVars>>

\* A retry check that never refuses.
V3MayRetry_Always(d) == TRUE

\* processing.py:669 : may the file in errors be tried again?
V3MayRetry(d) == Get(retries, d, 0) < max_retries

\* processing.py:689-693 then 703-716 : max retries reached.
V3MaxRetriesReached ==
    /\ V3Processing
    /\ V3NextIndex < Len(selected_files)
    /\ LET d == FileAt(V3NextIndex + 1) IN
         /\ d \notin DOMAIN results
         /\ d \in DOMAIN errors
         /\ ~V3MayRetry(d)
    /\ processed_files' = processed_files + 1
    /\ V3Tail(V3NextIndex, results)
    /\ UNCHANGED <<applyVars, resolveVars, routeVars, inputVars, total_files, results, errors, retries, pc, loop_i,
                   poolVars, attempts, started, cancelVars>>

\* processing.py:664-678 and 695-697 : process_file(file) is called, either as
\* a retry (the retry counter is incremented first) or as the first attempt.
V3Invoke ==
    /\ V3Processing
    /\ V3NextIndex < Len(selected_files)
    /\ LET d == FileAt(V3NextIndex + 1) IN
         /\ d \notin DOMAIN results
         /\ IF d \in DOMAIN errors
            THEN /\ V3MayRetry(d)
                 /\ retries' = Put(retries, d, Get(retries, d, 0) + 1)
            ELSE UNCHANGED retries
    /\ current_file_index' = V3NextIndex
    /\ pc' = "v3_call"
    /\ NoteInvoke(V3NextIndex + 1)
    /\ UNCHANGED <<applyVars, resolveVars, routeVars, inputVars, is_processing, processed_files, total_files, results,
                   errors, extraction_results, loop_i, poolVars,
                   attempts, cancelVars>>

\* A return that leaves the errors entry of the document in place.
V3Return_KeepsError(out) ==
    /\ impl = "V3"
    /\ pc = "v3_call"
    /\ LET d == FileAt(current_file_index + 1) IN
         /\ IF out \in Responses
            THEN /\ results' = Put(results, d, out)
                 /\ processed_files' = processed_files + 1
                 /\ UNCHANGED errors
            ELSE /\ errors' = Put(errors, d, out)
                 /\ UNCHANGED <<results, processed_files>>
         /\ NoteReturn(d, out)
    /\ V3Tail(current_file_index, results')
    /\ pc' = "idle"
    /\ UNCHANGED <<applyVars, resolveVars, routeVars, inputVars, total_files, retries, loop_i, poolVars,
                   started, cancelVars>>

\* process_file's outcome (processing.py:600-622) and the caller's bookkeeping
\* (680-688 / 699-701), then the tail 703-716.
V3Return(out) ==
    /\ impl = "V3"
    /\ pc = "v3_call"
    /\ LET d == FileAt(current_file_index + 1) IN
         /\ IF out \in Responses
            THEN /\ results' = Put(results, d, out)
                 /\ errors' = Del(errors, d)
                 /\ processed_files' = processed_files + 1
            ELSE /\ errors' = Put(errors, d, out)
                 /\ UNCHANGED <<results, processed_files>>
         /\ NoteReturn(d, out)
    /\ V3Tail(current_file_index, results')
    /\ pc' = "idle"
    /\ UNCHANGED <<applyVars, resolveVars, routeVars, inputVars, total_files, retries, loop_i, poolVars,
                   started, cancelVars>>

\* ---------------------------------------------------- modules/processing.py
\* Start button handler, processing.py:163-189, with the entry of
\* process_files_with_progress (262-268) and, in Parallel mode, the creation of
\* the pool and the submission of one task per file (273-278).
V4Start ==
    /\ impl = "V4"
    /\ pc = "idle"
    /\ is_processing' = TRUE
    /\ processed_files' = 0
    /\ total_files' = Len(selected_files)
    /\ current_file_index' = -1
    /\ results' = EmptyMap
    /\ errors' = EmptyMap
    /\ retries' = EmptyMap
    /\ extraction_results' = EmptyMap
    /\ pc' = IF processing_mode = "Parallel" THEN "par" ELSE "seq_loop"
    /\ loop_i' = 0
    /\ queue_next' = 1
    /\ running' = {}
    /\ completed' = EmptyMap
    /\ collected' = {}
    /\ NewRunHistory
    /\ UNCHANGED <<applyVars, resolveVars, routeVars, inputVars>>

\* Cancel button handler, processing.py:191-194.
V4Cancel ==
    /\ impl = "V4"
    /\ is_processing' = IF is_processing THEN FALSE ELSE is_processing
    /\ NoteCancel
    /\ UNCHANGED <<applyVars, resolveVars, routeVars, inputVars, processed_files, total_files, current_file_index,
                   results, errors, retries, extraction_results, pc, loop_i,
                   poolVars, attempts, started>>

\* A sequential loop that never polls is_processing.
SeqContinue_NoPoll == TRUE

\* processing.py:308-310 : the sequential loop goes on only while is_processing.
SeqContinue == is_processing

\* processing.py:307-318 : next iteration, process_single_file is called.
V4SeqNext ==
    /\ impl = "V4"
    /\ pc = "seq_loop"
    /\ loop_i < Len(selected_files)
    /\ SeqContinue
    /\ current_file_index' = loop_i
    /\ pc' = "seq_call"
    /\ NoteInvoke(loop_i + 1)
    /\ UNCHANGED <<applyVars, resolveVars, routeVars, inputVars, is_processing, processed_files, total_files, results,
                   errors, retries, extraction_results, loop_i, poolVars,
                   attempts, cancelVars>>

\* processing.py:291-296, 323-328 : the coordinating thread stores one outcome.
StoreOutcome(d, out) ==
    /\ processed_files' = processed_files + 1
    /\ IF out \in Responses
       THEN /\ results' = Put(results, d, out)
            /\ extraction_results' = Put(extraction_results, d, out)
            /\ UNCHANGED errors
       ELSE /\ errors' = Put(errors, d, out)
            /\ UNCHANGED <<results, extraction_results>>

\* processing.py:318-335 : process_single_file returned (344-450: a response,
\* or a failure turned into success=False), its outcome is stored.
V4SeqReturn(out) ==
    /\ impl = "V4"
    /\ pc = "seq_call"
    /\ StoreOutcome(FileAt(loop_i + 1), out)
    /\ NoteReturn(FileAt(loop_i + 1), out)
    /\ loop_i' = loop_i + 1
    /\ pc' = "seq_loop"
    /\ UNCHANGED <<applyVars, resolveVars, routeVars, inputVars, is_processing, total_files, current_file_index, retries,
                   poolVars, started, cancelVars>>

\* processing.py:337-342 : the loop is left (exhausted or break).
V4SeqEnd ==
    /\ impl = "V4"
    /\ pc = "seq_loop"
    /\ ~(loop_i < Len(selected_files) /\ SeqContinue)
    /\ is_processing' = FALSE
    /\ pc' = "idle"
    /\ loop_i' = 0
    /\ UNCHANGED <<applyVars, resolveVars, routeVars, inputVars, processed_files, total_files, current_file_index,
                   results, errors, retries, extraction_results, poolVars,
                   attempts, started, cancelVars>>

\* A pool without a usable worker.
WorkerFree_None == FALSE

\* A pool that starts every submitted task at once.
WorkerFree_Unbounded == TRUE

\* processing.py:273 : ThreadPoolExecutor(max_workers=batch_size).
WorkerFree == Cardinality(running) < batch_size

\* processing.py:277 : a pool worker takes the next submitted task (FIFO) and
\* calls process_single_file.
V4WorkerStart ==
    /\ impl = "V4"
    /\ pc = "par"
    /\ queue_next <= Len(selected_files)
    /\ WorkerFree
    /\ running' = running \cup {queue_next}
    /\ queue_next' = queue_next + 1
    /\ NoteInvoke(queue_next)
    /\ UNCHANGED <<applyVars, resolveVars, routeVars, inputVars, is_processing, processed_files, total_files,
                   current_file_index, results, errors, retries, extraction_results,
                   pc, loop_i, completed, collected, attempts, cancelVars>>

\* A worker that stores its outcome itself before its future is handed over.
V4WorkerReturn_Writes(p, out) ==
    /\ impl = "V4"
    /\ pc = "par"
    /\ p \in running
    /\ running' = running \ {p}
    /\ completed' = Put(completed, p, out)
    /\ StoreOutcome(FileAt(p), out)
    /\ NoteReturn(FileAt(p), out)
    /\ UNCHANGED <<applyVars, resolveVars, routeVars, inputVars, is_processing, total_files,
                   current_file_index, retries,
                   pc, loop_i, queue_next, collected, started, cancelVars>>

\* processing.py:344-450 : process_single_file returns in its worker thread.
V4WorkerReturn(p, out) ==
    /\ impl = "V4"
    /\ pc = "par"
    /\ p \in running
    /\ running' = running \ {p}
    /\ completed' = Put(completed, p, out)
    /\ NoteReturn(FileAt(p), out)
    /\ UNCHANGED <<applyVars, resolveVars, routeVars, inputVars, is_processing, processed_files, total_files,
                   current_file_index, results, errors, retries, extraction_results,
                   pc, loop_i, queue_next, collected, started, cancelVars>>

\* processing.py:281-304 : as_completed hands over a finished future.
V4Collect(p) ==
    /\ impl = "V4"
    /\ pc = "par"
    /\ p \in (DOMAIN completed) \ collected
    /\ StoreOutcome(FileAt(p), completed[p])
    /\ collected' = collected \cup {p}
    /\ UNCHANGED <<applyVars, resolveVars, routeVars, inputVars, is_processing, total_files, current_file_index, retries,
                   pc, loop_i, queue_next, running, completed,
                   attempts, started, cancelVars>>

\* processing.py:337-342 : every future was handed over; the pool is left.
V4ParEnd ==
    /\ impl = "V4"
    /\ pc = "par"
    /\ collected = Positions
    /\ is_processing' = FALSE
    /\ pc' = "idle"
    /\ queue_next' = 1
    /\ running' = {}
    /\ completed' = EmptyMap
    /\ collected' = {}
    /\ UNCHANGED <<applyVars, resolveVars, routeVars, inputVars, processed_files, total_files, current_file_index,
                   results, errors, retries, extraction_results, loop_i,
                   attempts, started, cancelVars>>

\* ----------------------------------------------------------- strings
\* Strings that the code inspects are sequences of one-character strings.
UpperCase == <<"A","B","C","D","E","F","G","H","I","J","K","L","M",
               "N","O","P","Q","R","S","T","U","V","W","X","Y","Z">>

LowerCase == <<"a","b","c","d","e","f","g","h","i","j","k","l","m",
               "n","o","p","q","r","s","t","u","v","w","x","y","z">>

LowerChar(c) ==
    IF \E i \in DOMAIN UpperCase : UpperCase[i] = c
    THEN LowerCase[CHOOSE i \in DOMAIN UpperCase : UpperCase[i] = c]
    ELSE c

\* str.lower()
Lower(s) == [i \in 1..Len(s) |-> LowerChar(s[i])]

\* str.replace(old, new) for a one-character `old`
ReplaceChar(s, old, new) == [i \in 1..Len(s) |-> IF s[i] = old THEN new ELSE s[i]]

\* `t in s`
Contains(s, t) ==
    \E i \in 0..(Len(s) - Len(t)) : SubSeq(s, i + 1, i + Len(t)) = t

\* ------------------------------------------------- values and field maps
\* A metadata value carries its Python type; `val` of a value that is neither
\* str, int, float nor bool is the text str(value) gives.
StrV(s) == [type |-> "str", val |-> s]
IntV(s) == [type |-> "int", val |-> s]
ListV(s) == [type |-> "list", val |-> s]

\* A field map is a Python dict: a sequence of <<key, value>> with distinct keys,
\* in insertion order.
DKeys(m) == {m[i][1] : i \in 1..Len(m)}

DGet(m, k) == m[CHOOSE i \in 1..Len(m) : m[i][1] = k][2]

DSet(m, k, v) ==
    IF k \in DKeys(m)
    THEN [i \in 1..Len(m) |-> IF m[i][1] = k THEN <<k, v>> ELSE m[i]]
    ELSE Append(m, <<k, v>>)

\* direct_metadata_application_enhanced_fixed.py:661-664
placeholder_indicators ==
    { <<"i","n","s","e","r","t">>,
      <<"p","l","a","c","e","h","o","l","d","e","r">>,
      <<"<">>, <<">">>, <<"[">>, <<"]">>,
      <<"e","n","t","e","r">>,
      <<"f","i","l","l"," ","i","n">>,
      <<"y","o","u","r">>,
      <<"e","x","a","m","p","l","e">> }

\* A comparison that does not fold the case of the value.
is_placeholder_CaseSensitive(value) ==
    IF value.type # "str" THEN FALSE
    ELSE \E indicator \in placeholder_indicators : Contains(value.val, indicator)

\* direct_metadata_application_enhanced_fixed.py:656-667
is_placeholder(value) ==
    IF value.type # "str" THEN FALSE
    ELSE \E indicator \in placeholder_indicators : Contains(Lower(value.val), indicator)

\* direct_metadata_application_enhanced_fixed.py:755
NoteKey == <<"_","n","o","t","e">>
NoteValue == StrV(<<"A","l","l"," ","o","t","h","e","r">>)

\* Filtering that keeps nothing when every value is a placeholder.
FilterPlaceholders_KeepNone(m) == SelectSeq(m, LAMBDA e : ~is_placeholder(e[2]))

\* direct_metadata_application_enhanced_fixed.py:744-757
FilterPlaceholders(m) ==
    LET filtered == SelectSeq(m, LAMBDA e : ~is_placeholder(e[2]))
    IN IF filtered = <<>> /\ m # <<>>
       THEN DSet(<<m[1]>>, NoteKey, NoteValue)
       ELSE filtered

\* Normalization that leaves hyphens alone.
NormalizeKey_SpacesOnly(key) == ReplaceChar(Lower(key), " ", "_")

\* direct_metadata_application_enhanced_fixed.py:774
NormalizeKey(key) == ReplaceChar(ReplaceChar(Lower(key), " ", "_"), "-", "_")

\* direct_metadata_application_enhanced_fixed.py:770-776
RECURSIVE NormalizeFrom(_, _, _)
NormalizeFrom(m, i, acc) ==
    IF i > Len(m) THEN acc
    ELSE NormalizeFrom(m, i + 1, DSet(acc, NormalizeKey(m[i][1]), m[i][2]))

NormalizeKeys(m) == NormalizeFrom(m, 1, <<>>)

\* direct_metadata_application_enhanced_fixed.py:779-781
CoerceValue(v) ==
    IF v.type \in {"str", "int", "float", "bool"} THEN v ELSE StrV(v.val)

CoerceValues(m) == [i \in 1..Len(m) |-> <<m[i][1], CoerceValue(m[i][2])>>]

\* direct_metadata_application_enhanced_fixed.py:880-884 : fields whose key starts
\* with "_" are internal and are not taken over.
GatherFields(m) == SelectSeq(m, LAMBDA e : ~(Len(e[1]) > 0 /\ e[1][1] = "_"))

\* direct_metadata_application_enhanced_fixed.py:707-713 (shortened texts)
DefaultMetadata ==
    << <<<<"d","o","c","u","m","e","n","t","_","t","y","p","e">>, StrV(<<"G","e","n","e","r","a","l">>)>>,
       <<<<"n","o","t","e","s">>, StrV(<<"D","e","f","a","u","l","t">>)>> >>

\* All operations but the one for the last key.
BuildOperations_DropLast(m) ==
    [i \in 1..(Len(m) - 1) |->
        [op |-> "replace", path |-> <<"/">> \o m[i][1], value |-> m[i][2]]]

\* "add" for the keys the existing record lacks, "replace" for the others.
BuildOperations_AddAbsent(m) ==
    [i \in 1..Len(m) |->
        [op |-> IF m[i][1] \in store[available_file_ids[a_i + 1]].keys
                THEN "replace" ELSE "add",
         path |-> <<"/">> \o m[i][1], value |-> m[i][2]]]

\* direct_metadata_application_enhanced_fixed.py:805-811
BuildOperations(m) ==
    [i \in 1..Len(m) |->
        [op |-> "replace", path |-> <<"/">> \o m[i][1], value |-> m[i][2]]]

\* --------------------------------------------------------- apply inputs
MaxFields == 2
MaxApplyFiles == 2
MaxPasses == 1

InKeys ==
    { <<"D","-"," ","T">>, <<"d","_","_","t">>, <<"_","i">> }

InValues ==
    { StrV(<<"o","k">>), StrV(<<"Y","o","u","R">>), IntV(<<"7">>), ListV(<<"7">>) }

RECURSIVE DictsUpTo(_)
DictsUpTo(n) ==
    IF n = 0 THEN {<<>>}
    ELSE LET shorter == DictsUpTo(n - 1)
         IN shorter \cup
            {Append(m, <<k, v>>) :
                m \in {t \in shorter : Len(t) = n - 1}, k \in InKeys, v \in InValues}

\* The field maps found for a document: dicts, so with distinct keys.
InputMaps == {m \in DictsUpTo(MaxFields) : Cardinality(DKeys(m)) = Len(m)}

\* The documents of an apply pass, each id once (lines 197-198).
ApplyFileLists ==
    {fs \in SeqsUpTo(MaxApplyFiles) \ {<<>>} :
        /\ FirstOccurrenceOrder(fs)
        /\ \A p, q \in 1..Len(fs) : p # q => fs[p] # fs[q]}

NoRecord == [exists |-> FALSE, keys |-> {}]

StoreRecords == {NoRecord, [exists |-> TRUE, keys |-> {<<"d","_","_","t">>}]}

\* Texts of the results' "error" entries (lines 766, 830, 838, 847, 995).
MsgNoMetadataFound == <<"N","o"," ","m","e","t","a","d","a","t","a"," ","f","o","u","n","d"," ","f","o","r"," ","t","h","i","s"," ","f","i","l","e">>

MsgNoValidMetadata ==
    <<"N","o"," ","v","a","l","i","d"," ","m","e","t","a","d","a","t","a"," ","f","o","u","n","d"," ","a","f","t","e","r"," ","f","i","l","t","e","r","i","n","g"," ","p","l","a","c","e","h","o","l","d","e","r","s">>

MsgErrorCreating == <<"E","r","r","o","r"," ","c","r","e","a","t","i","n","g"," ","m","e","t","a","d","a","t","a",":"," ">>
MsgErrorUpdating == <<"E","r","r","o","r"," ","u","p","d","a","t","i","n","g"," ","m","e","t","a","d","a","t","a",":"," ">>
MsgUnexpected == <<"U","n","e","x","p","e","c","t","e","d"," ","e","r","r","o","r",":"," ">>

\* Messages of the exceptions the store raises: the conflict of a create on a
\* document that has a record, and another API error.
MsgAlreadyExists == <<"M","e","t","a","d","a","t","a"," ","a","l","r","e","a","d","y"," ","e","x","i","s","t","s">>
MsgApiError == <<"A","P","I"," ","e","r","r","o","r">>
MsgDenied == <<"d","e","n","i","e","d">>
StoreErrors == {MsgApiError, MsgDenied}
UnexpectedErrors == {MsgDenied}

\* Line 801 : "already exists" in str(e).lower()
IsConflict(msg) == Contains(Lower(msg), <<"a","l","r","e","a","d","y"," ","e","x","i","s","t","s">>)

NoResult == [file_id |-> "", success |-> FALSE, error |-> <<>>,
             has_metadata |-> FALSE, metadata |-> <<>>]

ApplyFile == available_file_ids[a_i + 1]

\* The apply page at rest and the scheduler at rest.
ApplyRest ==
    /\ a_impl = "direct"
    /\ normalize_keys = TRUE
    /\ filter_placeholders = TRUE
    /\ use_default_metadata = FALSE
    /\ available_file_ids = <<>>
    /\ store = [d \in Ids |-> NoRecord]
    /\ a_pc = "idle"
    /\ a_passes = 0
    /\ a_i = 0
    /\ metadata_values = <<>>
    /\ operations = <<>>
    /\ a_input = <<>>
    /\ a_results = <<>>
    /\ a_errors = <<>>
    /\ store_calls = <<>>
    /\ a_result = NoResult

SchedRest ==
    /\ impl = "V4"
    /\ selected_files = <<>>
    /\ processing_mode = "Sequential"
    /\ batch_size = 1
    /\ max_retries = 0
    /\ ai_behaviour = [d \in Ids |-> Reliable]
    /\ is_processing = FALSE
    /\ processed_files = 0
    /\ total_files = 0
    /\ current_file_index = -1
    /\ results = EmptyMap
    /\ errors = EmptyMap
    /\ retries = EmptyMap
    /\ extraction_results = EmptyMap
    /\ pc = "idle"
    /\ loop_i = 0
    /\ queue_next = 1
    /\ running = {}
    /\ completed = EmptyMap
    /\ collected = {}
    /\ attempts = NoAttempts
    /\ started = {}
    /\ cancelled = FALSE
    /\ cancel_started = {}
    /\ cancel_inflight = {}

\* direct_metadata_application_enhanced_fixed.py:590-619 (the options) and the
\* state of the store before the pass.  The viewer page's helper reads none of
\* the options (Metadata Apply And Results Viewer.py:127-138).
ApplyInit ==
    /\ a_impl \in {"direct", "viewer"}
    /\ normalize_keys \in BOOLEAN
    /\ filter_placeholders \in BOOLEAN
    /\ use_default_metadata \in BOOLEAN
    /\ a_impl = "viewer" => (normalize_keys /\ filter_placeholders /\ ~use_default_metadata)
    /\ available_file_ids \in ApplyFileLists
    /\ store \in [Ids -> StoreRecords]
    /\ \A d \in Ids : (\A p \in 1..Len(available_file_ids) : available_file_ids[p] # d)
                          => store[d] = NoRecord
    /\ a_pc = "idle"
    /\ a_passes = 0
    /\ a_i = 0
    /\ metadata_values = <<>>
    /\ operations = <<>>
    /\ a_input = <<>>
    /\ a_results = <<>>
    /\ a_errors = <<>>
    /\ store_calls = <<>>
    /\ a_result = NoResult

\* The result dicts of apply_metadata_to_file_direct and of the pass.
Failed(msg) == [file_id |-> ApplyFile, success |-> FALSE, error |-> msg,
                has_metadata |-> FALSE, metadata |-> <<>>]

\* A success result without the "metadata" entry.
Succeeded_NoRecord(record) ==
    [file_id |-> ApplyFile, success |-> TRUE, error |-> <<>>,
     has_metadata |-> FALSE, metadata |-> <<>>]

\* Lines 794-799 and 818-823; the viewer's helper returns no "metadata" entry
\* (Metadata Apply And Results Viewer.py:131, 136).
Succeeded(record) ==
    IF a_impl = "direct"
    THEN [file_id |-> ApplyFile, success |-> TRUE, error |-> <<>>,
          has_metadata |-> TRUE, metadata |-> record]
    ELSE [file_id |-> ApplyFile, success |-> TRUE, error |-> <<>>,
          has_metadata |-> FALSE, metadata |-> <<>>]

\* What the lists of the pass keep of a result.
Entry(r) == [file_id |-> r.file_id, success |-> r.success, error |-> r.error]

\* One document of the pass is finished with result r (lines 985-996).
ApplyReturn(r) ==
    /\ a_result' = r
    /\ a_results' = IF r.success THEN Append(a_results, Entry(r)) ELSE a_results
    /\ a_errors' = IF r.success THEN a_errors ELSE Append(a_errors, Entry(r))
    /\ metadata_values' = <<>>
    /\ operations' = <<>>
    /\ a_i' = a_i + 1
    /\ a_pc' = "returned"

\* Lines 998-1000, 869-874 : progress update; the next iteration starts with
\* fresh locals (the histories of the finished document are dropped).
ApplyProgress ==
    /\ a_pc = "returned"
    /\ a_pc' = "loop"
    /\ a_input' = <<>>
    /\ store_calls' = <<>>
    /\ a_result' = NoResult
    /\ UNCHANGED <<schedVars, resolveVars, routeVars, a_impl, a_passes, normalize_keys, filter_placeholders,
                   use_default_metadata, available_file_ids, store, a_i,
                   metadata_values, operations, a_results, a_errors>>

\* Apply button handler, lines 851-866.
ApplyStart ==
    /\ a_pc = "idle"
    /\ a_passes < MaxPasses
    /\ a_passes' = a_passes + 1
    /\ a_pc' = "loop"
    /\ a_i' = 0
    /\ metadata_values' = <<>>
    /\ operations' = <<>>
    /\ a_input' = <<>>
    /\ a_results' = <<>>
    /\ a_errors' = <<>>
    /\ store_calls' = <<>>
    /\ a_result' = NoResult
    /\ UNCHANGED <<schedVars, resolveVars, routeVars, a_impl, normalize_keys, filter_placeholders,
                   use_default_metadata, available_file_ids, store>>

\* apply_metadata_to_file_direct up to the create call, lines 728-792.
PrepareMetadata(m) ==
    LET defaulted == IF m = <<>> /\ use_default_metadata THEN DefaultMetadata ELSE m
        filtered == IF filter_placeholders THEN FilterPlaceholders(defaulted) ELSE defaulted
        normalized == IF normalize_keys THEN NormalizeKeys(filtered) ELSE filtered
    IN IF filtered = <<>> THEN <<>> ELSE CoerceValues(normalized)

\* A call of the store: its argument, how it ended ("pending" while in flight),
\* the message of the exception it raised and the record it returned.
StoreCall(name, arg, reply) ==
    [op |-> name, arg |-> arg, reply |-> reply, message |-> <<>>, returned |-> <<>>]

\* Where the field map of a document comes from: the pass takes it from
\* file_id_to_metadata (lines 876-884, 975-978), or apply_metadata_to_file_direct
\* is handed a map as it is (the fallbacks of lines 903-973, and the calls of
\* test_metadata_application.py).
Sources == {"file_id_to_metadata", "handed"}

Handed(found, source) ==
    IF source = "file_id_to_metadata"
    THEN LET gathered == GatherFields(found)
         IN IF gathered = <<>> /\ use_default_metadata THEN DefaultMetadata ELSE gathered
    ELSE found

\* Lines 869-996 for the next document: the field map found for it is `found`;
\* with no metadata the pass records an error, otherwise
\* apply_metadata_to_file_direct runs up to its create call (or returns the
\* "no valid metadata" error of 760-767).
ApplyNextFile(found, source) ==
    /\ a_impl = "direct"
    /\ a_pc = "loop"
    /\ a_i < Len(available_file_ids)
    /\ \E given \in {Handed(found, source)} :
         /\ a_input' = given
         /\ IF given = <<>> /\ source = "file_id_to_metadata"
            THEN /\ ApplyReturn(Failed(MsgNoMetadataFound))
                 /\ store_calls' = <<>>
            ELSE \E prepared \in {PrepareMetadata(given)} :
                 IF prepared = <<>>
                 THEN /\ ApplyReturn(Failed(MsgNoValidMetadata))
                      /\ store_calls' = <<>>
                 ELSE /\ metadata_values' = prepared
                      /\ store_calls' = <<StoreCall("create", prepared, "pending")>>
                      /\ operations' = <<>>
                      /\ a_pc' = "create"
                      /\ UNCHANGED <<a_i, a_result, a_results, a_errors>>
    /\ UNCHANGED <<schedVars, resolveVars, routeVars, a_impl, a_passes, normalize_keys, filter_placeholders,
                   use_default_metadata, available_file_ids, store>>

\* Lines 841-848 : an exception outside the create/update handlers (raised by
\* line 729-788) is turned into a result.
ApplyUnexpectedError(found, msg) ==
    /\ a_impl = "direct"
    /\ a_pc = "loop"
    /\ a_i < Len(available_file_ids)
    /\ found # <<>>
    /\ a_input' = found
    /\ ApplyReturn(Failed(MsgUnexpected \o msg))
    /\ store_calls' = <<>>
    /\ UNCHANGED <<schedVars, resolveVars, routeVars, a_impl, a_passes, normalize_keys, filter_placeholders,
                   use_default_metadata, available_file_ids, store>>

\* Metadata Apply And Results Viewer.py:106-110, 127-131 : the helper is called
\* with file_id_to_metadata.get(fid, {}) and calls create with it.
ViewerNextFile(found) ==
    /\ a_impl = "viewer"
    /\ a_pc = "loop"
    /\ a_i < Len(available_file_ids)
    /\ a_input' = found
    /\ metadata_values' = found
    /\ store_calls' = <<StoreCall("create", found, "pending")>>
    /\ operations' = <<>>
    /\ a_pc' = "create"
    /\ UNCHANGED <<schedVars, resolveVars, routeVars, a_impl, a_passes, normalize_keys, filter_placeholders,
                   use_default_metadata, available_file_ids, store, a_i, a_result,
                   a_results, a_errors>>

Raised(calls, reply, msg) ==
    [calls EXCEPT ![Len(calls)].reply = reply, ![Len(calls)].message = msg]

Returned(calls, record) ==
    [calls EXCEPT ![Len(calls)].reply = "ok", ![Len(calls)].returned = record]

\* The text without the store's message.
CreateErrorText_NoMessage(msg) == MsgErrorCreating

\* Line 838 : f"Error creating metadata: {str(e)}"; the viewer's helper returns
\* str(e) (Metadata Apply And Results Viewer.py:138).
CreateErrorText(msg) == IF a_impl = "direct" THEN MsgErrorCreating \o msg ELSE msg

\* Line 830 : f"Error updating metadata: {str(update_error)}"
UpdateErrorText(msg) == MsgErrorUpdating \o msg

\* Lines 792-799 : create succeeded and returned the record.
StoreCreateOk ==
    /\ a_pc = "create"
    /\ ~store[ApplyFile].exists
    /\ store' = [store EXCEPT ![ApplyFile] = [exists |-> TRUE, keys |-> DKeys(metadata_values)]]
    /\ store_calls' = Returned(store_calls, metadata_values)
    /\ ApplyReturn(Succeeded(metadata_values))
    /\ UNCHANGED <<schedVars, resolveVars, routeVars, a_impl, a_passes, normalize_keys, filter_placeholders,
                   use_default_metadata, available_file_ids, a_input>>

\* Lines 800-815 : create raised "already exists"; the update is issued.
StoreCreateConflict ==
    /\ a_pc = "create"
    /\ store[ApplyFile].exists
    /\ IsConflict(MsgAlreadyExists)
    /\ operations' = BuildOperations(metadata_values)
    /\ store_calls' = Append(Raised(store_calls, "already exists", MsgAlreadyExists),
                             StoreCall("update", BuildOperations(metadata_values), "pending"))
    /\ a_pc' = "update"
    /\ UNCHANGED <<schedVars, resolveVars, routeVars, a_impl, a_passes, normalize_keys, filter_placeholders,
                   use_default_metadata, available_file_ids, store, a_i,
                   metadata_values, a_result, a_input, a_results, a_errors>>

\* A create error of any kind is followed by an update.
StoreCreateError_ThenUpdate(msg) ==
    /\ a_pc = "create"
    /\ ~IsConflict(msg)
    /\ operations' = BuildOperations(metadata_values)
    /\ store_calls' = Append(Raised(store_calls, "error", msg),
                             StoreCall("update", BuildOperations(metadata_values), "pending"))
    /\ a_pc' = "update"
    /\ UNCHANGED <<schedVars, resolveVars, routeVars, a_impl, a_passes, normalize_keys, filter_placeholders,
                   use_default_metadata, available_file_ids, store, a_i,
                   metadata_values, a_result, a_input, a_results, a_errors>>

\* Lines 832-839 : create raised another error (the viewer's helper returns
\* str(e), Metadata Apply And Results Viewer.py:138).
StoreCreateError(msg) ==
    /\ a_pc = "create"
    /\ ~IsConflict(msg)
    /\ store_calls' = Raised(store_calls, "error", msg)
    /\ ApplyReturn(Failed(CreateErrorText(msg)))
    /\ UNCHANGED <<schedVars, resolveVars, routeVars, a_impl, a_passes, normalize_keys, filter_placeholders,
                   use_default_metadata, available_file_ids, store, a_input>>

\* Lines 815-823 : update succeeded and returned the record.
StoreUpdateOk ==
    /\ a_pc = "update"
    /\ store' = [store EXCEPT ![ApplyFile].keys = @ \cup DKeys(metadata_values)]
    /\ store_calls' = Returned(store_calls, metadata_values)
    /\ ApplyReturn(Succeeded(metadata_values))
    /\ UNCHANGED <<schedVars, resolveVars, routeVars, a_impl, a_passes, normalize_keys, filter_placeholders,
                   use_default_metadata, available_file_ids, a_input>>

\* Lines 824-831 : update raised.
StoreUpdateError(msg) ==
    /\ a_impl = "direct"
    /\ a_pc = "update"
    /\ store_calls' = Raised(store_calls, "error", msg)
    /\ ApplyReturn(Failed(UpdateErrorText(msg)))
    /\ UNCHANGED <<schedVars, resolveVars, routeVars, a_impl, a_passes, normalize_keys, filter_placeholders,
                   use_default_metadata, available_file_ids, store, a_input>>

\* Metadata Apply And Results Viewer.py:133-136 : nothing catches an exception
\* of update; the decorators re-raise it (enhanced_logging.py:17-23) and it ends
\* the script run inside the loop of lines 105-115.
ViewerUpdateRaises(msg) ==
    /\ a_impl = "viewer"
    /\ a_pc = "update"
    /\ store_calls' = Raised(store_calls, "error", msg)
    /\ a_pc' = "idle"
    /\ UNCHANGED <<schedVars, resolveVars, routeVars, a_impl, a_passes, normalize_keys, filter_placeholders,
                   use_default_metadata, available_file_ids, store, a_i, a_input,
                   metadata_values, operations, a_result, a_results, a_errors>>

\* Lines 1002-1018 : the pass is over.
ApplyEnd ==
    /\ a_pc = "loop"
    /\ ~(a_i < Len(available_file_ids))
    /\ a_pc' = "idle"
    /\ UNCHANGED <<schedVars, resolveVars, routeVars, a_impl, a_passes, normalize_keys, filter_placeholders,
                   use_default_metadata, available_file_ids, store, a_i, a_input,
                   metadata_values, operations, store_calls, a_result,
                   a_results, a_errors>>

\* ------------------------------------------------- resolver and feedback
\* One file's processing: the AI call's raw response, the resolver
\* (extract_structured_data_from_response), the feedback merge, and the map
\* recorded for the file.  JSON-like values are tagged: a mapping's val is a
\* function from keys to values, a list's val a sequence.
StrJ(t) == [type |-> "str", val |-> t]
DictJ(f) == [type |-> "dict", val |-> f]
ListJ(q) == [type |-> "list", val |-> q]
NoneJ == [type |-> "none", val |-> <<>>]
Absent == [type |-> "absent", val |-> <<>>]

IsDict(v) == v.type = "dict"
IsStr(v) == v.type = "str"
IsList(v) == v.type = "list"

\* json.loads on the texts an answer can carry: a document that is a mapping,
\* a document that is a list, and a text that is no JSON document.
JsonObjectText == "{\"a\": \"6\"}"
JsonListText == "[\"6\"]"
JsonInvalidText == "a is 6"

JsonDecodes(text) == text \in {JsonObjectText, JsonListText}

JsonLoads(text) ==
    CASE text = JsonObjectText -> DictJ([a |-> StrJ("6")])
      [] text = JsonListText -> ListJ(<<StrJ("6")>>)

\* The raw responses of the AI call.
AnswerMap == [a |-> StrJ("1"), b |-> StrJ("2")]
ResponseAnswerMap == [a |-> StrJ("4")]
ItemAnswerMap == [a |-> StrJ("5")]

AnswerChoices ==
    { Absent, DictJ(AnswerMap), StrJ(JsonObjectText), StrJ(JsonListText),
      StrJ(JsonInvalidText), ListJ(<<StrJ("1")>>) }
TopLevelChoices == { Absent, StrJ("7") }
TypeChoices == { Absent, StrJ("ai_response") }
ResponseChoices ==
    { Absent, DictJ([answer |-> DictJ(ResponseAnswerMap)]),
      DictJ([answer |-> StrJ("4")]), StrJ("4") }
ItemsChoices ==
    { Absent, ListJ(<<>>), ListJ(<<DictJ([answer |-> DictJ(ItemAnswerMap)])>>),
      ListJ(<<DictJ([answer |-> StrJ("5")])>>), ListJ(<<StrJ("5")>>) }

RawDict(a, b, t, r, i) ==
    LET full == [answer |-> a, b |-> b, type |-> t, response |-> r, items |-> i]
        present == { k \in DOMAIN full : full[k] # Absent }
    IN DictJ([k \in present |-> full[k]])

RawResponses ==
    { RawDict(a, b, t, r, i) :
        a \in AnswerChoices, b \in TopLevelChoices, t \in TypeChoices,
        r \in ResponseChoices, i \in ItemsChoices }
    \cup { StrJ("7") }

ScrapeDenylist ==
    {"error", "items", "response", "item_collection", "entries", "type", "id",
     "sequence_id"}

\* The top-level key/value pairs of a mapping outside the denylist.
Scrape(d) == [k \in (DOMAIN d) \ ScrapeDenylist |-> d[k]]

HasDictAnswer(d) == "answer" \in DOMAIN d /\ IsDict(d["answer"])

extract_structured_data_from_response_ScrapeFirst(response) ==
    IF ~IsDict(response) THEN EmptyMap
    ELSE IF Scrape(response.val) # EmptyMap THEN Scrape(response.val)
    ELSE IF HasDictAnswer(response.val) THEN response.val["answer"].val
    ELSE EmptyMap

extract_structured_data_from_response(response) ==
    IF ~IsDict(response) THEN EmptyMap
    ELSE
      LET d == response.val IN
      IF HasDictAnswer(d) THEN d["answer"].val
      ELSE IF /\ "answer" \in DOMAIN d
              /\ IsStr(d["answer"])
              /\ JsonDecodes(d["answer"].val)
              /\ IsDict(JsonLoads(d["answer"].val))
      THEN JsonLoads(d["answer"].val).val
      ELSE IF /\ "response" \in DOMAIN d
              /\ IsDict(d["response"])
              /\ HasDictAnswer(d["response"].val)
      THEN d["response"].val["answer"].val
      ELSE IF /\ "items" \in DOMAIN d
              /\ IsList(d["items"])
              /\ Len(d["items"].val) > 0
              /\ IsDict(d["items"].val[1])
              /\ HasDictAnswer(d["items"].val[1].val)
      THEN d["items"].val[1].val["answer"].val
      ELSE Scrape(d)

\* The structured branches copy the response's own fields.
StructuredExcluded == {"error", "items", "response"}

StructuredCopy(response) ==
    IF IsDict(response)
    THEN [k \in (DOMAIN response.val) \ StructuredExcluded |-> response.val[k]]
    ELSE EmptyMap

\* for key, value in feedback.items(): result[key] = value
MergeFeedback(result, feedback) ==
    [k \in (DOMAIN result) \cup (DOMAIN feedback) |->
        IF k \in DOMAIN feedback THEN feedback[k] ELSE result[k]]

ProcessedFile == "f1"
Methods == {"structured", "freeform"}

FeedbackKey(file_id, method) == file_id \o "_" \o method
FeedbackKeys == { FeedbackKey(f, m) : f \in {"f1", "f2"}, m \in Methods }
FeedbackEntry == [b |-> StrJ("9"), c |-> StrJ("3")]
FeedbackEntries == { FeedbackEntry, EmptyMap }
FeedbackData ==
    UNION { [S -> FeedbackEntries] : S \in SUBSET FeedbackKeys }

feedback_key == FeedbackKey(ProcessedFile, p_method)
has_feedback == feedback_key \in DOMAIN feedback_data

ResolveRest ==
    /\ p_impl = "V3"
    /\ p_pc = "idle"
    /\ p_method = "freeform"
    /\ feedback_data = EmptyMap
    /\ api_result = NoneJ
    /\ p_resolved = NoneJ
    /\ p_result = NoneJ
    /\ p_error = NoneJ
    /\ p_call = "none"

ResolveInit ==
    /\ p_impl \in {"V3", "V4"}
    /\ p_pc = "call"
    /\ p_method \in Methods
    /\ feedback_data \in FeedbackData
    /\ api_result = NoneJ
    /\ p_resolved = NoneJ
    /\ p_result = NoneJ
    /\ p_error = NoneJ
    /\ p_call = "none"

\* Messages of the exceptions a call can end with.
CallErrors == {"API Request Error"}
MsgUnavailable == "Extraction function not available"

\* extract_metadata_structured / extract_metadata_freeform of Metadata-V3.0:
\* an exception of the API call is returned as a mapping, not raised.
ErrorReply(msg) == DictJ([error |-> StrJ(msg)])

\* V3 process_file from the extraction function's return value to the stored
\* result (processing.py:315-361 and 600-609).
ProcessFileStore(raw) ==
    /\ api_result' = raw
    /\ p_resolved' = DictJ(IF p_method = "structured"
                           THEN StructuredCopy(raw)
                           ELSE extract_structured_data_from_response(raw))
    /\ p_result' = IF has_feedback
                   THEN DictJ(MergeFeedback(p_resolved'.val, feedback_data[feedback_key]))
                   ELSE p_resolved'
    /\ p_pc' = "recorded"
    /\ UNCHANGED p_error

\* V3 process_file, the AI call returns a response.
process_file(raw) ==
    /\ p_impl = "V3"
    /\ p_pc = "call"
    /\ p_call' = "returned"
    /\ ProcessFileStore(raw)
    /\ UNCHANGED <<schedVars, applyVars, routeVars, p_impl, p_method, feedback_data>>

\* V3 process_file, the AI call raises inside the extraction function.
process_file_call_raises(msg) ==
    /\ p_impl = "V3"
    /\ p_pc = "call"
    /\ p_call' = "raised"
    /\ ProcessFileStore(ErrorReply(msg))
    /\ UNCHANGED <<schedVars, applyVars, routeVars, p_impl, p_method, feedback_data>>

\* V3 process_file raises by itself before the AI call is made
\* (processing.py:611-622): the error is stored.
process_file_raises(msg) ==
    /\ p_impl = "V3"
    /\ p_pc = "call"
    /\ p_pc' = "failed"
    /\ p_error' = StrJ(msg)
    /\ UNCHANGED <<schedVars, applyVars, routeVars, p_impl, p_method, feedback_data,
                   api_result, p_resolved, p_result, p_call>>

\* V4 process_single_file and the caller's results[file["id"]] = result["data"].
ProcessSingleFileStore(raw) ==
    /\ api_result' = raw
    /\ p_resolved' = raw
    /\ p_result' = raw
    /\ p_pc' = "recorded"
    /\ UNCHANGED p_error

process_single_file(raw) ==
    /\ p_impl = "V4"
    /\ p_pc = "call"
    /\ p_call' = "returned"
    /\ ProcessSingleFileStore(raw)
    /\ UNCHANGED <<schedVars, applyVars, routeVars, p_impl, p_method, feedback_data>>

\* V4: the extraction function raises; success False, the caller stores
\* errors[file["id"]] = result["error"].
process_single_file_raises(msg) ==
    /\ p_impl = "V4"
    /\ p_pc = "call"
    /\ p_call' = "raised"
    /\ p_pc' = "failed"
    /\ p_error' = StrJ(msg)
    /\ UNCHANGED <<schedVars, applyVars, routeVars, p_impl, p_method, feedback_data,
                   api_result, p_resolved, p_result>>

\* V4 get_extraction_functions after a failed import: the stand-in function
\* returns an error mapping, which is stored like a response.
process_single_file_unavailable ==
    /\ p_impl = "V4"
    /\ p_pc = "call"
    /\ p_call' = "unavailable"
    /\ ProcessSingleFileStore(ErrorReply(MsgUnavailable))
    /\ UNCHANGED <<schedVars, applyVars, routeVars, p_impl, p_method, feedback_data>>

\* ------------------------------------------------------- strategy choice
\* Which extraction call process_file / process_single_file makes for a file,
\* given the configuration and the file's classification.
DocTypes == {"Invoice", "Other"}
NoTemplate == "None"
TypeTemplate == "tpl_invoice"
GlobalTemplate == "tpl_global"
GlobalFields == "custom_fields"
\* metadata_config.py:36-40 : the default custom_fields, an empty list.
NoFields == ""
GlobalPrompt == "freeform_prompt"
TypePrompt == "type_prompt"

PartialMaps(D, V) == UNION { [S -> V] : S \in SUBSET D }

Configs ==
    [extraction_method : Methods, use_template : BOOLEAN,
     use_document_type_templates : BOOLEAN, custom_fields : {NoFields, GlobalFields}]

TemplateCall(t) == [kind |-> "template", template |-> t, fields |-> "", prompt |-> ""]
FieldsCall(f) == [kind |-> "fields", template |-> "", fields |-> f, prompt |-> ""]
FreeformCall(q) == [kind |-> "freeform", template |-> "", fields |-> "", prompt |-> q]
NoCall == [kind |-> "", template |-> "", fields |-> "", prompt |-> ""]

\* metadata_config.py:91-95 : file_to_template[file_id] is the template matched
\* to the file's document type, for the files that were categorized.
file_to_template ==
    [f \in DOMAIN document_categorization |->
        Get(document_type_to_template, document_categorization[f], NoTemplate)]

\* The globally configured call (V3 processing.py:524-598).
ConfiguredCall ==
    IF metadata_config.extraction_method = "structured"
    THEN IF metadata_config.use_template
         THEN TemplateCall(GlobalTemplate)
         ELSE FieldsCall(metadata_config.custom_fields)
    ELSE FreeformCall(GlobalPrompt)

\* V3 process_file, processing.py:462-522 (and 286-361 with feedback).
ProcessFileCall(file_id) ==
    IF metadata_config.use_document_type_templates
    THEN LET document_type == Get(document_categorization, file_id, "Other")
             template == Get(file_to_template, file_id, NoTemplate)
         IN IF template # NoTemplate
            THEN TemplateCall(template)
            ELSE FreeformCall(Get(document_type_prompts, document_type, GlobalPrompt))
    ELSE ConfiguredCall

\* V4 process_single_file, processing.py:364-430.
ProcessSingleFileCall(file_id) ==
    LET classified == file_id \in DOMAIN document_categorization
        document_type == IF classified THEN document_categorization[file_id] ELSE NoTemplate
        use_document_type_template ==
            /\ classified
            /\ document_type \in DOMAIN document_type_to_template
            /\ document_type_to_template[document_type] # NoTemplate
        template_id ==
            IF use_document_type_template THEN document_type_to_template[document_type]
            ELSE IF metadata_config.use_template THEN GlobalTemplate
            ELSE NoTemplate
    IN IF metadata_config.extraction_method = "freeform"
       THEN FreeformCall(IF classified /\ document_type \in DOMAIN document_type_prompts
                         THEN document_type_prompts[document_type]
                         ELSE GlobalPrompt)
       ELSE IF template_id # NoTemplate
            THEN TemplateCall(template_id)
            ELSE FieldsCall(metadata_config.custom_fields)

\* The message of the ValueError both extract_metadata_structured raise when
\* they are given neither a template nor fields.
MsgNoStrategy == "Either template_id or custom_fields must be provided"

\* extract_metadata_structured: the request is built from the template, else
\* from the fields, else ValueError is raised before any request is sent
\* (V3 metadata_extraction.py:47-108, V4 metadata_extraction.py:141-171).
SendsRequest(call) == call.kind # "fields" \/ call.fields # NoFields

\* What is recorded for the file: in results or in errors, with which message;
\* "pending" while it depends on the AI's answer.
NothingRecorded == [into |-> "", message |-> ""]
AwaitsAnswer == [into |-> "pending", message |-> ""]

\* V3: the ValueError is caught inside extract_metadata_structured and returned
\* as {"error": msg} (metadata_extraction.py:107-117); process_file copies the
\* mapping without its "error" key and stores the empty result under results
\* (processing.py:567-574, 600-609).
ProcessFileRecord(call) ==
    IF SendsRequest(call) THEN AwaitsAnswer
    ELSE [into |-> "results", message |-> ""]

\* V4: the ValueError leaves extract_metadata_structured, process_single_file
\* returns success False with str(e) (processing.py:441-450) and the caller
\* stores it under errors (processing.py:324-328).
ProcessSingleFileRecord(call) ==
    IF SendsRequest(call) THEN AwaitsAnswer
    ELSE [into |-> "errors", message |-> MsgNoStrategy]

RouteRest ==
    /\ r_impl = "V3"
    /\ r_pc = "idle"
    /\ metadata_config = [extraction_method |-> "structured", use_template |-> FALSE,
                          use_document_type_templates |-> FALSE,
                          custom_fields |-> NoFields]
    /\ document_categorization = EmptyMap
    /\ document_type_to_template = EmptyMap
    /\ document_type_prompts = EmptyMap
    /\ strategy = NoCall
    /\ r_ai_call = FALSE
    /\ r_recorded = NothingRecorded

RouteInit ==
    /\ r_impl \in {"V3", "V4"}
    /\ r_pc = "start"
    /\ metadata_config \in Configs
    /\ document_categorization \in PartialMaps({ProcessedFile}, DocTypes)
    /\ document_type_to_template \in PartialMaps(DocTypes, {NoTemplate, TypeTemplate})
    /\ document_type_prompts \in PartialMaps(DocTypes, {TypePrompt})
    /\ strategy = NoCall
    /\ r_ai_call = FALSE
    /\ r_recorded = NothingRecorded

process_file_call ==
    /\ r_impl = "V3"
    /\ r_pc = "start"
    /\ strategy' = ProcessFileCall(ProcessedFile)
    /\ r_ai_call' = SendsRequest(strategy')
    /\ r_recorded' = ProcessFileRecord(strategy')
    /\ r_pc' = "called"
    /\ UNCHANGED <<schedVars, applyVars, resolveVars, r_impl, metadata_config,
                   document_categorization, document_type_to_template,
                   document_type_prompts>>

process_single_file_call ==
    /\ r_impl = "V4"
    /\ r_pc = "start"
    /\ strategy' = ProcessSingleFileCall(ProcessedFile)
    /\ r_ai_call' = SendsRequest(strategy')
    /\ r_recorded' = ProcessSingleFileRecord(strategy')
    /\ r_pc' = "called"
    /\ UNCHANGED <<schedVars, applyVars, resolveVars, r_impl, metadata_config,
                   document_categorization, document_type_to_template,
                   document_type_prompts>>

\* ------------------------------------------------------------ specification
Next ==
    \/ V3Start
    \/ V3Cancel
    \/ V3AllHandled
    \/ V3Skip
    \/ V3MaxRetriesReached
    \/ V3Invoke
    \/ pc = "v3_call" /\ \E out \in CallOutcomes(FileAt(current_file_index + 1)) : V3Return(out)
    \/ V4Start
    \/ V4Cancel
    \/ V4SeqNext
    \/ pc = "seq_call" /\ \E out \in CallOutcomes(FileAt(loop_i + 1)) : V4SeqReturn(out)
    \/ V4SeqEnd
    \/ V4WorkerStart
    \/ \E p \in running : \E out \in CallOutcomes(FileAt(p)) : V4WorkerReturn(p, out)
    \/ \E p \in Positions : V4Collect(p)
    \/ V4ParEnd

Init == SchedInit /\ ApplyRest /\ ResolveRest /\ RouteRest

Spec == Init /\ [][Next]_vars

\* The steps a started run takes by itself: script reruns and loop iterations,
\* pool workers, and AI calls that return or raise.  Start and Cancel are the
\* operator's and are not forced.
RunStep ==
    \/ V3AllHandled
    \/ V3Skip
    \/ V3MaxRetriesReached
    \/ V3Invoke
    \/ pc = "v3_call" /\ \E out \in CallOutcomes(FileAt(current_file_index + 1)) : V3Return(out)
    \/ V4SeqNext
    \/ pc = "seq_call" /\ \E out \in CallOutcomes(FileAt(loop_i + 1)) : V4SeqReturn(out)
    \/ V4SeqEnd
    \/ V4WorkerStart
    \/ \E p \in running : \E out \in CallOutcomes(FileAt(p)) : V4WorkerReturn(p, out)
    \/ \E p \in Positions : V4Collect(p)
    \/ V4ParEnd

\* Every AI call eventually returns or raises and the script keeps running.
SpecLive == Init /\ [][Next]_vars /\ WF_vars(RunStep)

\* The apply pass on its own.
InitApply == SchedRest /\ ApplyInit /\ ResolveRest /\ RouteRest

NextApply ==
    \/ ApplyStart
    \/ \E found \in InputMaps, source \in Sources : ApplyNextFile(found, source)
    \/ \E found \in InputMaps, msg \in UnexpectedErrors : ApplyUnexpectedError(found, msg)
    \/ \E found \in InputMaps : ViewerNextFile(found)
    \/ StoreCreateOk
    \/ StoreCreateConflict
    \/ \E msg \in StoreErrors : StoreCreateError(msg)
    \/ StoreUpdateOk
    \/ \E msg \in StoreErrors : StoreUpdateError(msg)
    \/ \E msg \in StoreErrors : ViewerUpdateRaises(msg)
    \/ ApplyProgress
    \/ ApplyEnd

SpecApply == InitApply /\ [][NextApply]_vars

\* One file's processing on its own.
InitResolve == SchedRest /\ ApplyRest /\ ResolveInit /\ RouteRest

NextResolve ==
    \/ \E raw \in RawResponses : process_file(raw)
    \/ \E msg \in CallErrors : process_file_call_raises(msg)
    \/ \E msg \in CallErrors : process_file_raises(msg)
    \/ \E raw \in RawResponses : process_single_file(raw)
    \/ \E msg \in CallErrors : process_single_file_raises(msg)
    \/ process_single_file_unavailable

SpecResolve == InitResolve /\ [][NextResolve]_vars

\* The strategy choice on its own.
InitRoute == SchedRest /\ ApplyRest /\ ResolveRest /\ RouteInit

NextRoute ==
    \/ process_file_call
    \/ process_single_file_call

SpecRoute == InitRoute /\ [][NextRoute]_vars

\* ------------------------------------------------------------ properties
HasOutcome(d) == d \in (DOMAIN results) \cup (DOMAIN errors)

\* A run was started and is_processing is false again.
RunOver == pc = "idle" /\ ~is_processing /\ total_files > 0

Invocations(d) == Len(attempts[d])

\* C1 (Retry bound): a document whose call fails on every attempt has, once the
\* uncancelled run is over, been invoked exactly max_retries + 1 times and is a
\* failure that records max_retries + 1 attempts (max_retries retries).
C1_RetryBound ==
    (RunOver /\ ~cancelled /\ DistinctIds) =>
        \A d \in FileIds :
            (ai_behaviour[d].always_fails /\ Invocations(d) > 0) =>
                /\ Invocations(d) = max_retries + 1
                /\ d \in DOMAIN errors
                /\ d \notin DOMAIN results
                /\ Get(retries, d, 0) + 1 = max_retries + 1

\* C2 (Retry success path): a document whose call fails k < max_retries times and
\* then succeeds has, once the uncancelled run is over, been invoked exactly k + 1
\* times and is in results and not in errors.
C2_RetrySuccess ==
    (RunOver /\ ~cancelled /\ DistinctIds) =>
        \A d \in FileIds :
            (/\ ~ai_behaviour[d].always_fails
             /\ ai_behaviour[d].fails_before_ok < max_retries
             /\ Invocations(d) > 0) =>
                /\ Invocations(d) = ai_behaviour[d].fails_before_ok + 1
                /\ d \in DOMAIN results
                /\ d \notin DOMAIN errors

\* C3 (Batch idempotence): a step that starts a run leaves every outcome already
\* in results in place, with its value.
C3_BatchIdempotence ==
    [][(~is_processing /\ is_processing') =>
          \A d \in DOMAIN results : d \in DOMAIN results' /\ results'[d] = results[d]]_vars

\* C4 (Sequential cancellation): once Cancel was handled during a Sequential run,
\* no call is invoked for a position that had not started, no outcome exists for
\* such a position, and the call in flight at that moment gets its outcome
\* recorded when it returns.
C4_SequentialCancel ==
    (processing_mode = "Sequential" /\ cancelled) =>
        /\ started \subseteq cancel_started
        /\ DistinctIds => \A p \in Positions \ cancel_started : ~HasOutcome(FileAt(p))
        /\ \A p \in cancel_inflight : p \in InFlight \/ HasOutcome(FileAt(p))

\* The case of C4: a V4 Sequential run cancelled while a call was in flight is
\* over, that document has its outcome and a later document exists.
C4_Witness ==
    /\ impl = "V4"
    /\ processing_mode = "Sequential"
    /\ DistinctIds
    /\ cancelled
    /\ RunOver
    /\ cancel_inflight # {}
    /\ \A p \in cancel_inflight : HasOutcome(FileAt(p))
    /\ Positions \ cancel_started # {}

\* C5 (Parallel cancellation): once Cancel was handled during a Parallel run, no
\* call that had not started is started, and every call in flight at that moment
\* has its outcome recorded by the end of the run.
C5_ParallelCancel ==
    (processing_mode = "Parallel" /\ cancelled) =>
        /\ started \subseteq cancel_started
        /\ RunOver => \A p \in cancel_inflight : HasOutcome(FileAt(p))

\* C6 (Progress invariant): processed_files equals the number of documents that
\* have an outcome (a results entry or an errors entry).
C6_ProgressInvariant ==
    DistinctIds => processed_files = Cardinality((DOMAIN results) \cup (DOMAIN errors))

\* C7 (Failure isolation): in an uncancelled run that is over, every document
\* after a failed document has been processed (has an outcome).
C7_FailureIsolation ==
    (RunOver /\ ~cancelled /\ DistinctIds) =>
        \A p \in Positions :
            FileAt(p) \in DOMAIN errors =>
                \A q \in Positions : q > p => HasOutcome(FileAt(q))

\* C8 (Completion covers every document): when an uncancelled run is over, every
\* document of the input has an outcome.
C8_CompletionCoversAll ==
    (RunOver /\ ~cancelled) => \A d \in FileIds : HasOutcome(d)

\* C21 (termination): whenever a run is on, it eventually is over: the status
\* is not-processing and no loop or call of the run is left, in both modes,
\* for every mix of successes and failures, cancelled or not.
C21_RunTerminates == is_processing ~> (~is_processing /\ pc = "idle")

\* Runs of every kind are over: Sequential and Parallel, with a failure and a
\* success, cancelled or not.
C21_Witness ==
    /\ RunOver
    /\ DOMAIN errors # {}
    /\ DOMAIN results # {}
    /\ processing_mode = "Parallel"
    /\ cancelled

\* The run status the page shows: Running while is_processing; Cancelling when
\* is_processing was cleared and a loop or call of the run is still going on;
\* Completed when a run was started and nothing of it is left; Idle before.
RunStatus ==
    IF is_processing THEN "Running"
    ELSE IF pc # "idle" THEN "Cancelling"
    ELSE IF total_files > 0 THEN "Completed"
    ELSE "Idle"

StartStep == V3Start \/ V4Start

CancelStep == V3Cancel \/ V4Cancel

\* The moves of the run status, without their triggers.
StatusMoves ==
    [][\/ RunStatus' = RunStatus
       \/ RunStatus \in {"Idle", "Completed"} /\ RunStatus' = "Running"
       \/ RunStatus = "Running" /\ RunStatus' \in {"Cancelling", "Completed"}
       \/ RunStatus = "Cancelling" /\ RunStatus' = "Completed"]_vars

\* C22 (run status transitions): the status becomes Running only from Idle or
\* Completed and only by Start; it leaves Running either to Completed with
\* every document handled, or by Cancel (to Cancelling, or to Completed when
\* nothing is in flight); Cancelling only moves to Completed; and a Cancel
\* while no run is in progress changes nothing.
C22_StatusTransitions ==
    [][/\ \/ RunStatus' = RunStatus
          \/ /\ RunStatus \in {"Idle", "Completed"}
             /\ RunStatus' = "Running"
             /\ StartStep
          \/ /\ RunStatus = "Running"
             /\ RunStatus' = "Completed"
             /\ \A d \in FileIds : HasOutcome(d)'
          \/ /\ RunStatus = "Running"
             /\ RunStatus' \in {"Cancelling", "Completed"}
             /\ CancelStep
          \/ /\ RunStatus = "Cancelling"
             /\ RunStatus' = "Completed"
       /\ (CancelStep /\ ~is_processing) => UNCHANGED vars]_vars

\* C23 (sequential ordering): in Sequential mode at most one call is in flight,
\* a call for a position is only invoked when every earlier position has its
\* outcome recorded, and the positions with an outcome form a prefix of the
\* input (outcomes are recorded in increasing position).
C23_SequentialOrdering ==
    (processing_mode = "Sequential" /\ DistinctIds) =>
        /\ Cardinality(InFlight) <= 1
        /\ \A p \in started : \A q \in 1..(p - 1) : HasOutcome(FileAt(q))
        /\ \A p \in Positions :
              HasOutcome(FileAt(p)) => \A q \in 1..(p - 1) : HasOutcome(FileAt(q))

\* C24 (bounded concurrency): in Parallel mode the number of AI calls in
\* flight at the same time never exceeds batch_size.
C24_BoundedConcurrency ==
    processing_mode = "Parallel" => Cardinality(InFlight) <= batch_size

\* The pool is full (batch_size calls in flight, more than one) while a
\* further document waits for a worker.
C24_Witness ==
    /\ processing_mode = "Parallel"
    /\ pc = "par"
    /\ batch_size > 1
    /\ Cardinality(InFlight) = batch_size
    /\ queue_next <= Len(selected_files)

\* The contiguous batch (0-based) of an input position.
BatchOf(p) == (p - 1) \div batch_size

\* C25 (batch barrier): no call for a document of a later batch is in flight
\* together with a call for a document of an earlier batch.
C25_BatchBarrier ==
    (processing_mode = "Parallel" /\ DistinctIds) =>
        \A p, q \in InFlight : BatchOf(p) = BatchOf(q)

OutcomeState == <<results, errors, processed_files>>

\* C26 (single serialization point): during a Parallel run the outcome state
\* (results, errors, processed_files) is written only by the coordinating
\* thread's collect steps, a worker's start or return leaves it unchanged,
\* and no update is lost: processed_files counts the collected futures and
\* every collected document has its outcome.
C26_SingleWriter ==
    [][(processing_mode = "Parallel" /\ pc = "par") =>
          /\ OutcomeState' # OutcomeState => \E p \in Positions : V4Collect(p)
          /\ (\/ V4WorkerStart
              \/ \E p \in running : \E out \in Outcomes : V4WorkerReturn(p, out))
                => OutcomeState' = OutcomeState
          /\ pc' = "par" =>
                /\ processed_files' = Cardinality(collected')
                /\ \A p \in collected' : HasOutcome(FileAt(p))']_vars

\* Outcomes were collected out of input order: the second document's outcome
\* is stored while the first document's call has returned but is not
\* collected, and a third call is in flight.
C26_Witness ==
    /\ pc = "par"
    /\ DistinctIds
    /\ collected = {2}
    /\ 1 \in DOMAIN completed
    /\ 3 \in running
    /\ processed_files = 1
    /\ HasOutcome(FileAt(2))

\* ------------------------------------------------------------ apply pass
\* The create call made for the current document was answered "already exists".
CreateConflicted ==
    /\ Len(store_calls) >= 1
    /\ store_calls[1].op = "create"
    /\ store_calls[1].reply = "already exists"

\* C9 (upsert conflict path): when the store's create reports that a record
\* already exists, apply issues exactly one update whose patch holds exactly
\* one operation per key of the field map, a replace of path "/" + key with
\* the key's value, and the result is a success when that update succeeds.
C9_UpsertConflict ==
    CreateConflicted =>
        LET m == store_calls[1].arg
        IN /\ Len(store_calls) = 2
           /\ store_calls[2].op = "update"
           /\ Len(store_calls[2].arg) = Len(m)
           /\ \A k \in DKeys(m) :
                Cardinality({i \in 1..Len(store_calls[2].arg) :
                                store_calls[2].arg[i].path = <<"/">> \o k}) = 1
           /\ \A i \in 1..Len(store_calls[2].arg) :
                /\ store_calls[2].arg[i].op = "replace"
                /\ Tail(store_calls[2].arg[i].path) \in DKeys(m)
                /\ store_calls[2].arg[i].value = DGet(m, Tail(store_calls[2].arg[i].path))
           /\ store_calls[2].reply = "ok" =>
                (a_pc # "update" /\ a_result.success
                    /\ a_result.file_id = available_file_ids[a_i])

C9_Witness ==
    /\ CreateConflicted
    /\ Len(store_calls[1].arg) = 2
    /\ store_calls[2].reply = "ok"
    /\ a_result.success

\* The keys of the record the store already holds for the current document
\* while the update is in flight.
ExistingKeys == store[ApplyFile].keys

\* C10 as stated (upsert patch shape): on a conflict apply fetches the
\* existing record, and the patch uses add for the keys absent from it and
\* replace for the keys present in it.
C10_UpsertPatchShape ==
    (CreateConflicted /\ a_pc = "update") =>
        /\ \E c \in 1..Len(store_calls) : store_calls[c].op = "get"
        /\ \A i \in 1..Len(operations) :
            operations[i].op = IF Tail(operations[i].path) \in ExistingKeys
                               THEN "replace" ELSE "add"

\* C10 amended: on a conflict apply does not fetch the existing record; the
\* update is issued right after the create, and its patch uses replace for
\* every key, whether the existing record holds the key or not.
C10_ReplaceOnly ==
    (CreateConflicted /\ a_pc = "update") =>
        /\ \A c \in 1..Len(store_calls) : store_calls[c].op # "get"
        /\ store_calls[Len(store_calls)].op = "update"
        /\ store_calls[Len(store_calls)].arg = operations
        /\ Len(operations) = Len(metadata_values)
        /\ \A i \in 1..Len(operations) :
            /\ Tail(operations[i].path) \notin ExistingKeys => operations[i].op = "replace"
            /\ Tail(operations[i].path) \in ExistingKeys => operations[i].op = "replace"

C10_Witness ==
    /\ CreateConflicted
    /\ a_pc = "update"
    /\ \E i \in 1..Len(operations) : Tail(operations[i].path) \notin ExistingKeys
    /\ \E i \in 1..Len(operations) : Tail(operations[i].path) \in ExistingKeys

\* The entries that the lists of the pass hold for document d.
EntriesFor(d) ==
    Len(SelectSeq(a_results, LAMBDA e : e.file_id = d))
        + Len(SelectSeq(a_errors, LAMBDA e : e.file_id = d))

PassOver == a_pc = "idle" /\ a_passes > 0

\* C11 (apply failure isolation): a failure for one document gives a
\* success=false entry for that document only, and every other document of the
\* pass is still attempted: every document handled so far has exactly one
\* entry, results hold successes and errors hold failures, and when the pass is
\* over every document of the pass has its entry.
C11_ApplyFailureIsolation ==
    /\ \A p \in 1..Len(available_file_ids) :
         EntriesFor(available_file_ids[p]) = (IF p <= a_i THEN 1 ELSE 0)
    /\ \A j \in 1..Len(a_results) : a_results[j].success
    /\ \A j \in 1..Len(a_errors) : ~a_errors[j].success
    /\ PassOver => a_i = Len(available_file_ids)

\* The current document's create ended with `reply`.
CreateEnded(reply) ==
    /\ Len(store_calls) >=  1
    /\ store_calls[1].op = "create"
    /\ store_calls[1].reply = reply

\* C12 (non-conflict create error): when create fails with an error that is
\* not an "already exists" conflict, the result is success=false for this
\* document with an error that contains the store's message, and update is not
\* called for the document.
C12_CreateError ==
    CreateEnded("error") =>
        /\ Len(store_calls) = 1
        /\ a_pc = "returned"
        /\ ~a_result.success
        /\ a_result.file_id = available_file_ids[a_i]
        /\ Contains(a_result.error, store_calls[1].message)
        /\ a_errors[Len(a_errors)] = Entry(a_result)

C12_Witness ==
    /\ CreateEnded("error")
    /\ a_impl = "direct"
    /\ store_calls[1].message = MsgDenied
    /\ store[available_file_ids[a_i]].exists

\* A value that is a str, int, float or bool.
Primitive(v) == v.type \in {"str", "int", "float", "bool"}

\* The key as the claims describe its normal form: lower-cased, each space and
\* each hyphen an underscore.
ClaimedNormalKey(k) ==
    [i \in 1..Len(k) |-> IF k[i] \in {" ", "-"} THEN "_" ELSE LowerChar(k[i])]

\* A string that contains, case-insensitively, one of the placeholder indicators.
ClaimedPlaceholder(v) ==
    /\ v.type = "str"
    /\ \E indicator \in placeholder_indicators : Contains(Lower(v.val), indicator)

\* A field map that none of the steps before the create call changes.
PassedAsIs(m) ==
    /\ m # <<>>
    /\ \A i \in 1..Len(m) :
        /\ ~ClaimedPlaceholder(m[i][2])
        /\ Primitive(m[i][2])
        /\ m[i][1] = ClaimedNormalKey(m[i][1])

\* C13 (create success): when create succeeds, the result is success=true with
\* the document's id and the record the store returned, create is the only
\* store call made for the document (no update), and a field map that needs no
\* filtering, normalization or coercion is the argument of that create.
C13_CreateSuccess ==
    (a_impl = "direct" /\ CreateEnded("ok")) =>
        /\ Len(store_calls) = 1
        /\ a_pc = "returned"
        /\ a_result.success
        /\ a_result.file_id = available_file_ids[a_i]
        /\ a_result.has_metadata
        /\ a_result.metadata = store_calls[1].returned
        /\ PassedAsIs(a_input) => store_calls[1].arg = a_input

C13_Witness ==
    /\ a_impl = "direct"
    /\ CreateEnded("ok")
    /\ PassedAsIs(a_input)
    /\ Len(a_input) = 2
    /\ a_result.success

\* The text test_empty_metadata_values looks for in the error.
NoMetadataText == <<"N","o"," ","m","e","t","a","d","a","t","a">>

\* C14 (empty field map): apply handed an empty field map makes no create and
\* no update call, and returns success=false with an error that contains
\* "No metadata".
C14_EmptyFieldMap ==
    (a_impl = "direct" /\ a_input = <<>> /\ a_pc \in {"create", "update", "returned"}) =>
        /\ store_calls = <<>>
        /\ a_pc = "returned"
        /\ ~a_result.success
        /\ Contains(a_result.error, NoMetadataText)

\* The map being written: the argument of the current document's create.
Written == store_calls[1].arg

\* The key under which the field of key k is written.
WrittenKey(k) == IF normalize_keys THEN ClaimedNormalKey(k) ELSE k

\* The value as written: a value that is no str, int, float or bool is written
\* as its string.
WrittenValue(v) == IF Primitive(v) THEN v ELSE [type |-> "str", val |-> v.val]

CreateIssued == a_impl = "direct" /\ a_pc = "create" /\ Len(store_calls) = 1

\* The input fields whose value is not a placeholder string.
KeptFields == SelectSeq(a_input, LAMBDA e : ~ClaimedPlaceholder(e[2]))

\* C15 as stated (placeholder filtering): with filter_placeholders on and at
\* least one non-placeholder field in the input, the written map holds exactly
\* the input fields whose value is not a placeholder string, one written field
\* per such input field, each with its value unchanged.
C15_AsStated ==
    (CreateIssued /\ filter_placeholders /\ KeptFields # <<>>) =>
        /\ Len(Written) = Len(KeptFields)
        /\ \A i \in 1..Len(KeptFields) :
            Written[i] = <<WrittenKey(KeptFields[i][1]), KeptFields[i][2]>>

\* C15 amended (placeholder filtering): with filter_placeholders on and at
\* least one non-placeholder field in the input, the written map holds exactly
\* the input fields whose value is not a placeholder string, under their
\* written keys (fields that share a written key are written once): every such
\* field is written, non-string values included, every written field is such
\* an input field, and its value is the input value, as its string when it is
\* no str, int, float or bool.
C15_PlaceholderFiltering ==
    (CreateIssued /\ filter_placeholders
        /\ \E i \in 1..Len(a_input) : ~ClaimedPlaceholder(a_input[i][2])) =>
        /\ \A i \in 1..Len(a_input) :
            ~ClaimedPlaceholder(a_input[i][2]) => WrittenKey(a_input[i][1]) \in DKeys(Written)
        /\ \A i \in 1..Len(a_input) :
            a_input[i][2].type # "str" => WrittenKey(a_input[i][1]) \in DKeys(Written)
        /\ \A j \in 1..Len(Written) :
            \E i \in 1..Len(a_input) :
                /\ ~ClaimedPlaceholder(a_input[i][2])
                /\ Written[j][1] = WrittenKey(a_input[i][1])
                /\ Written[j][2] = WrittenValue(a_input[i][2])

C15_Witness ==
    /\ CreateIssued
    /\ filter_placeholders
    /\ Len(a_input) = 2
    /\ Len(Written) = 1
    /\ a_input[1][2] = StrV(<<"Y","o","u","R">>)
    /\ a_input[2][2].type = "int"

\* C16 (all-placeholder quirk): with filtering on and a non-empty field map
\* whose values are all placeholders, the written map is one original field
\* with its original value followed by the marker field; and a non-empty field
\* map never ends in an empty write or in a "no metadata" failure.
C16_AllPlaceholderQuirk ==
    (a_impl = "direct" /\ a_input # <<>>) =>
        /\ (CreateIssued /\ filter_placeholders
                /\ \A i \in 1..Len(a_input) : ClaimedPlaceholder(a_input[i][2])) =>
            /\ Len(Written) = 2
            /\ \E i \in 1..Len(a_input) :
                Written[1] = <<WrittenKey(a_input[i][1]), a_input[i][2]>>
            /\ Written[2][1] = NoteKey
            /\ \A i \in 1..Len(a_input) : a_input[i][1] # NoteKey
        /\ CreateIssued => Written # <<>>
        /\ a_pc = "returned" =>
            a_result.error \notin {MsgNoValidMetadata, MsgNoMetadataFound}

C16_Witness ==
    /\ CreateIssued
    /\ filter_placeholders
    /\ Len(a_input) = 2
    /\ \A i \in 1..Len(a_input) : ClaimedPlaceholder(a_input[i][2])
    /\ Len(Written) = 2

\* The last field of m whose key has the normal form k.
LastWithNormalKey(m, k) ==
    m[CHOOSE i \in 1..Len(m) :
        /\ ClaimedNormalKey(m[i][1]) = k
        /\ \A j \in (i + 1)..Len(m) : ClaimedNormalKey(m[j][1]) # k]

\* The filter step and the default metadata leave the field map alone.
OnlyNormalized(m) ==
    /\ m # <<>>
    /\ filter_placeholders => \A i \in 1..Len(m) : ~ClaimedPlaceholder(m[i][2])

\* The keys that the update's operations address.
UpdateKeys == {Tail(operations[i].path) : i \in 1..Len(operations)}

Recorded == p_pc = "recorded"

Resolved(by) == Recorded /\ p_impl = by /\ p_method = "freeform" /\ IsDict(api_result)

\* C19: whenever the raw response is a mapping whose `answer` entry is itself
\* a mapping, the resolver returns exactly that mapping, whatever top-level
\* keys, `response` entry or `items` entry the response also carries.
C19_RuleOneFirst ==
    (/\ Resolved("V3")
     /\ "answer" \in DOMAIN api_result.val
     /\ api_result.val["answer"].type = "dict")
    => p_resolved = api_result.val["answer"]

\* A response with a mapping answer, a scrapeable top-level key, a
\* response.answer mapping and an items[0].answer mapping was resolved.
C19_Witness ==
    /\ Resolved("V3")
    /\ api_result = RawDict(DictJ(AnswerMap), StrJ("7"), StrJ("ai_response"),
                            DictJ([answer |-> DictJ(ResponseAnswerMap)]),
                            ListJ(<<DictJ([answer |-> DictJ(ItemAnswerMap)])>>))
    /\ p_resolved = DictJ(AnswerMap)

\* An `answer` entry is usable when it is a mapping or a text that parses to one.
UsableAnswer(d) ==
    /\ "answer" \in DOMAIN d
    /\ \/ d["answer"].type = "dict"
       \/ d["answer"].type = "str" /\ d["answer"].val = JsonObjectText

ClaimedDenylist ==
    {"error", "items", "response", "item_collection", "entries", "type", "id",
     "sequence_id"}

ClaimedScrape(d) == [k \in { x \in DOMAIN d : x \notin ClaimedDenylist } |-> d[k]]

\* C20: for a raw response with no usable `answer` entry whose top-level
\* scrape yields at least one key outside the denylist, the resolver returns
\* exactly the scraped pairs, also when the response carries a
\* response.answer mapping or an items[0].answer mapping.
C20_ScrapeBeforeNested ==
    (/\ Resolved("V3")
     /\ ~UsableAnswer(api_result.val)
     /\ DOMAIN ClaimedScrape(api_result.val) # {})
    => p_resolved = DictJ(ClaimedScrape(api_result.val))

\* C18: with a feedback entry under (file id, strategy kind) the recorded map
\* is the resolved map overlaid with the entry (feedback keys carry the
\* feedback values, keys only in the resolved map keep theirs, no other key
\* appears); without one the recorded map is the resolved map.
C18_FeedbackPrecedence ==
    Recorded =>
        IF FeedbackKey(ProcessedFile, p_method) \in DOMAIN feedback_data
        THEN IsDict(p_resolved) =>
               LET entry == feedback_data[FeedbackKey(ProcessedFile, p_method)]
                   resolved == p_resolved.val
               IN /\ IsDict(p_result)
                  /\ DOMAIN p_result.val = (DOMAIN resolved) \cup (DOMAIN entry)
                  /\ \A k \in DOMAIN entry : p_result.val[k] = entry[k]
                  /\ \A k \in (DOMAIN resolved) \ (DOMAIN entry) :
                        p_result.val[k] = resolved[k]
        ELSE p_result = p_resolved

C28_ResolveBeforeWrap ==
    Recorded =>
        LET resolved == extract_structured_data_from_response(api_result)
            key == FeedbackKey(ProcessedFile, p_method)
        IN p_result = DictJ(IF key \in DOMAIN feedback_data
                            THEN MergeFeedback(resolved, feedback_data[key])
                            ELSE resolved)

\* ---- strategy choice properties (SpecRoute)
Called == r_pc = "called"

Classified == ProcessedFile \in DOMAIN document_categorization

MappedTemplate ==
    IF /\ Classified
       /\ document_categorization[ProcessedFile] \in DOMAIN document_type_to_template
    THEN document_type_to_template[document_categorization[ProcessedFile]]
    ELSE "None"

\* C29: with document-type routing on and the file classified with a type that
\* is mapped to a template, the call made is the template-based structured
\* call with that template, whatever the configured extraction method.
C29_TypeRouting ==
    (/\ Called
     /\ metadata_config.use_document_type_templates
     /\ MappedTemplate # "None")
    => (strategy.kind = "template" /\ strategy.template = MappedTemplate)

\* The call the configuration alone asks for.
ClaimedDefault ==
    CASE metadata_config.extraction_method = "freeform" ->
            [kind |-> "freeform", template |-> "", fields |-> "", prompt |-> "freeform_prompt"]
      [] metadata_config.extraction_method = "structured" /\ metadata_config.use_template ->
            [kind |-> "template", template |-> "tpl_global", fields |-> "", prompt |-> ""]
      [] metadata_config.extraction_method = "structured" /\ ~metadata_config.use_template ->
            [kind |-> "fields", template |-> "", fields |-> metadata_config.custom_fields,
             prompt |-> ""]

\* C30: with document-type routing off, or the file not classified, the call
\* made is the one globally configured call.
C30_DefaultRouting ==
    (Called /\ (~metadata_config.use_document_type_templates \/ ~Classified))
    => strategy = ClaimedDefault

\* ------------------------------------------------ reserved keys at the store
\* A key that starts with the internal-reserved prefix.
ReservedKey(k) == Len(k) > 0 /\ k[1] = "_"

\* The keys a store call carries: the keys of create's field map, and the keys
\* the paths of update's operations name ("/" followed by the key).
CallKeys(call) ==
    IF call.op = "create"
    THEN {call.arg[i][1] : i \in 1..Len(call.arg)}
    ELSE {Tail(call.arg[i].path) : i \in 1..Len(call.arg)}

\* C31 (reserved-prefix invariant): no key that starts with "_" is part of a
\* field map passed to the store's create or update, whatever the input field
\* map and the normalize and filter options.
C31_ReservedPrefix ==
    a_impl = "direct" =>
        \A c \in 1..Len(store_calls) :
            \A k \in CallKeys(store_calls[c]) : ~ReservedKey(k)

\* ---- configuration without a strategy (SpecRoute)
\* The call chosen for the file is the structured one with neither a template
\* nor a field list.
NoStrategy == strategy.kind = "fields" /\ strategy.fields = ""

V3StepEnds ==
    /\ impl = "V3"
    /\ pc' = "idle"
    /\ \/ pc = "v3_call"
       \/ pc = "idle" /\ is_processing /\ current_file_index' # current_file_index

\* current_file_index as the script run found it: a run that is inside
\* process_file has set it to the index of the document it handles.
IndexAtStepStart ==
    IF pc = "v3_call" THEN current_file_index - 1 ELSE current_file_index

\* C33 (no document is skipped): each processing step of the Metadata-V3.0
\* loop handles the document at index current_file_index + 1 and leaves the
\* index advanced by exactly one, so no index is skipped across reruns.
C33_NoDocumentSkipped ==
    [][V3StepEnds => current_file_index' = IndexAtStepStart + 1]_vars

\* ---- outcomes (Spec)
\* C34 (outcomes are exclusive): with distinct document ids no document id is a
\* key of both results and errors; and in the Metadata-V3.0 loop, the only one
\* that retries, a retry that succeeds removes the document's errors entry
\* when it adds the results entry, so the maps are disjoint there for every
\* list of documents.
C34_ExclusiveOutcomes ==
    (DistinctIds \/ impl = "V3") => (DOMAIN results \cap DOMAIN errors = {})

\* A retry has succeeded: the document failed, was invoked again after its
\* retry counter was incremented, and is now in results.
C34_Witness ==
    /\ impl = "V3"
    /\ pc = "idle"
    /\ \E d \in FileIds :
        /\ Get(retries, d, 0) = 1
        /\ attempts[d] = <<"fail", "ok">>
        /\ d \in DOMAIN results
        /\ d \notin DOMAIN errors

\* ---- the store calls of one document (SpecApply)
\* The documents of the pass that have their result.
ReturnedFiles ==
    {a_results[i].file_id : i \in 1..Len(a_results)}
        \cup {a_errors[i].file_id : i \in 1..Len(a_errors)}

\* C35 (apply call protocol): for each document of one apply pass create is
\* called at most once and update at most once, update is called only after
\* that document's create raised an "already exists" conflict, and no store
\* call for a document follows a returned result for it: once the result is
\* returned no call is in flight, and a call is only made for a document that
\* has no result yet.
C35_ApplyCallProtocol ==
    a_impl = "direct" =>
        /\ Len(store_calls) <= 2
        /\ Len(store_calls) >= 1 => store_calls[1].op = "create"
        /\ Len(store_calls) = 2 =>
            /\ store_calls[2].op = "update"
            /\ store_calls[1].reply = "already exists"
            /\ Contains(Lower(store_calls[1].message),
                        <<"a","l","r","e","a","d","y"," ","e","x","i","s","t","s">>)
        /\ \A c \in 1..Len(store_calls) :
            store_calls[c].reply = "pending" =>
                /\ c = Len(store_calls)
                /\ a_pc \in {"create", "update"}
                /\ ApplyFile \notin ReturnedFiles
        /\ a_pc \in {"create", "update"} =>
            store_calls[Len(store_calls)].reply = "pending"

\* The second document of a pass has gone through create, conflict and update
\* and has its result, after the first document got its own.
C35_Witness ==
    /\ a_impl = "direct"
    /\ a_pc = "returned"
    /\ a_i = 2
    /\ Len(store_calls) = 2
    /\ store_calls[1].reply = "already exists"
    /\ store_calls[2].reply = "ok"
    /\ Cardinality(ReturnedFiles) = 2

\* ---- Start (Spec)
\* The state of a run that has just begun.
FreshRun ==
    /\ results = EmptyMap
    /\ errors = EmptyMap
    /\ retries = EmptyMap
    /\ processed_files = 0
    /\ current_file_index = -1
    /\ total_files = Len(selected_files)
    /\ is_processing

\* C36 (Start begins a fresh run): immediately after a Start action, whatever
\* the state before, results, errors and retries are empty, processed_files is
\* 0, current_file_index is -1, total_files is the number of selected
\* documents and is_processing is true.
C36_StartIsFresh ==
    [][(StartStep \/ (pc = "idle" /\ ~is_processing /\ is_processing')) => FreshRun']_vars

\* A run has just been started after an earlier run that had recorded a
\* result (extraction_results still holds it).
C36_Witness ==
    /\ impl = "V3"
    /\ pc = "idle"
    /\ FreshRun
    /\ started = {}
    /\ extraction_results # EmptyMap

\* ---- retry counters of the Metadata-V3.0 loop (Spec)
\* C37 (retry counter bound): in every state of the Metadata-V3.0 loop
\* retries[d] <= max_retries for every document d, and a counter changes, other
\* than by the reset of Start, only by an increment of one that is followed at
\* once by a re-invocation of that document: the step that increments it is
\* the step that calls process_file for d, and d was invoked before.
C37_RetryCounterBound ==
    /\ [](impl = "V3" => \A d \in DOMAIN retries : retries[d] <= max_retries)
    /\ [][(impl = "V3" /\ retries' # retries /\ ~StartStep) =>
            \E d \in FileIds :
                /\ retries' = Put(retries, d, Get(retries, d, 0) + 1)
                /\ pc = "idle" /\ pc' = "v3_call"
                /\ FileAt(current_file_index' + 1) = d
                /\ Len(attempts[d]) >= 1]_vars

\* A document is being invoked again with its counter at the bound.
C37_Witness ==
    /\ impl = "V3"
    /\ pc = "v3_call"
    /\ max_retries = 1
    /\ LET d == FileAt(current_file_index + 1) IN
        /\ Get(retries, d, 0) = max_retries
        /\ attempts[d] = <<"fail">>

\* ---- extraction_results (Spec)
\* The step records an outcome: a results or an errors entry is written or
\* removed by a processing step.
RecordsOutcome ==
    /\ ~StartStep
    /\ (results' # results \/ errors' # errors)

\* C38 (results mirror): after every processing step that records an outcome,
\* extraction_results has exactly the document ids and values of results.
C38_ResultsMirror ==
    [][RecordsOutcome => extraction_results' = results']_vars

\* A run of the Metadata-V3.0 loop has recorded a Success and a Failure, and
\* extraction_results holds the Success.
C38_Witness ==
    /\ impl = "V3"
    /\ pc = "idle"
    /\ results # EmptyMap
    /\ errors # EmptyMap
    /\ extraction_results = results


====
